---------------------------- MODULE Spec2Model ----------------------------
(***************************************************************************)
(* Model of USDExporter (python/mujoco/usd/exporter.py): the incremental   *)
(* synchronisation of a MuJoCo scene into a time-sampled USD stage.        *)
(*                                                                         *)
(* One action per public method.  update_scene is one atomic step; a call  *)
(* that raises keeps the effects it had before the exception, as Python    *)
(* does, and records the exception in last.err.                            *)
(***************************************************************************)
EXTENDS Integers, Sequences, FiniteSets, TLC

(***************************************************************************)
(* Bounds of the exploration.                                              *)
(***************************************************************************)
MaxCalls   == 3   \* update_scene calls per session
LongCalls  == 4   \* update_scene calls of a session whose model has one geom
MaxGeoms   == 2   \* scene.ngeom of one call
MaxTex     == 1   \* model.ntex
MaxLights  == 1   \* scene.nlight
MaxCameras == 1   \* len(camera_names)
MaxExports == 2   \* save_scene calls per session
MaxAdds    == 1   \* primitives added by add_light / add_camera
MaxDim     == 3   \* width, height, offwidth and offheight of a construction

(***************************************************************************)
(* Program constants.                                                      *)
(***************************************************************************)
mjNTEXMAT == 10   \* stride of model.mat_texid
NoMaterial == -1  \* geom.matid of a geom without material

(***************************************************************************)
(* The simulator's model: three named geoms and one material.              *)
(***************************************************************************)
GeomNames == {"box", "ball", "line"}


GeomType(name) ==
  CASE name = "box"  -> "mjGEOM_BOX"
    [] name = "ball" -> "mjGEOM_SPHERE"
    [] OTHER         -> "mjGEOM_LINE"

GeomMatid(name) == IF name = "ball" THEN 0 ELSE NoMaterial

\* The shape kinds _load_geom has a builder for.
SupportedTypes ==
  {"mjGEOM_MESH", "mjGEOM_PLANE", "mjGEOM_SPHERE", "mjGEOM_CAPSULE",
   "mjGEOM_ELLIPSOID", "mjGEOM_CYLINDER", "mjGEOM_BOX"}

\* The if/elif chain over geom.type: does a builder exist.
HasBuilderForAll(type) == TRUE
HasBuilder(type) == type \in SupportedTypes

\* One entry of scene.geoms: the name mj_id2name gives it and rgba[3].
SceneGeoms(names) ==
  {g \in [name : names, alpha : {0, 1}] : HasBuilder(GeomType(g.name)) \/ g.alpha = 1}

RECURSIVE SeqsUpTo(_, _)
SeqsUpTo(S, n) ==
  IF n = 0 THEN {<<>>}
  ELSE LET shorter == SeqsUpTo(S, n - 1)
       IN shorter \cup {Append(q, x) : q \in {r \in shorter : Len(r) = n - 1}, x \in S}

Scenes(names) == SeqsUpTo(SceneGeoms(names), MaxGeoms)

\* scene.lights: each light is at the origin or positioned.
LightConfigs == SeqsUpTo({"origin", "positioned"}, MaxLights)

\* camera_names: None, or a list of names.
CameraName(i) == CASE i = 1 -> "cam1" [] i = 2 -> "cam2" [] OTHER -> "cam3"

CameraConfigs ==
  {[none |-> TRUE, names |-> <<>>]} \cup
  {[none |-> FALSE, names |-> [i \in 1..n |-> CameraName(i)]] : n \in 0..MaxCameras}

VARIABLES
  width,           \* argument width of __init__
  height,          \* argument height of __init__
  offwidth,        \* model.vis.global_.offwidth
  offheight,       \* model.vis.global_.offheight
  raised,          \* the exception __init__ raised, "none" if none
  renderer,        \* whether self.renderer exists
  directories,     \* whether the output directories exist
  model_geoms,     \* the named geoms of the model
  ntex,            \* model.ntex
  mat_texid,       \* model.mat_texid, flat, indexed from 0
  lights,          \* scene.lights
  camera_names,    \* self.camera_names
  texture_files,   \* self.texture_files
  frame_count,     \* self.frame_count
  updates,         \* self.updates
  geom_name2usd,   \* self.geom_name2usd: name -> handle, 0 is None
  stage,           \* self.stage: the number of the stage object in use
  prims,           \* every primitive the session's components hold, by handle
  adhoc,           \* the primitives add_light and add_camera defined
  usd_lights,      \* self.usd_lights
  usd_cameras,     \* self.usd_cameras
  endTimeCode,     \* stage end time code, by stage number
  files,           \* names of the files in frames/
  ncalls,          \* update_scene calls made
  nexports,        \* save_scene calls made
  exportsInARow,   \* save_scene calls made since the last other call
  builds,          \* per name: builder invocations
  reported,        \* names reported by any call so far
  boxLog,          \* per call: what the scene said about "box"
  last             \* the last update_scene call: its scene, the value of
                   \* updates on entry (frame), the exception it raised,
                   \* the samples it authored, the names _load_geom was
                   \* invoked for, the helpers it ran, the identity map and the
                   \* reported names before it, and what the call before
                   \* it said about each name

\* What __init__ receives and what only __init__ writes.
ctorVars == <<width, height, offwidth, offheight, raised, renderer, directories>>

vars ==
  <<width, height, offwidth, offheight, raised, renderer, directories,
    model_geoms, ntex, mat_texid, lights, camera_names, texture_files,
    frame_count, updates, geom_name2usd, stage, prims, adhoc,
    usd_lights, usd_cameras, endTimeCode, files, ncalls, nexports,
    exportsInARow, builds, reported, boxLog, last>>

None == 0

(***************************************************************************)
(* The component module: primitives and their time samples.                *)
(***************************************************************************)
NewPrim(kind, name, stg, tex) ==
  [kind |-> kind, name |-> name, stage |-> stg, tex |-> tex,
   vis |-> <<>>, xf |-> {}]

\* update_visibility(visible, frame): authoring at a frame overwrites.
SetVis(p, visible, frame) ==
  [p EXCEPT !.vis = [f \in (DOMAIN p.vis) \cup {frame} |->
                       IF f = frame THEN visible ELSE p.vis[f]]]

\* update(pos, mat, visible, frame): transform and visibility at frame.
UpdatePrim(p, visible, frame) ==
  [SetVis(p, visible, frame) EXCEPT !.xf = p.xf \cup {frame}]

\* update(...) of a light or camera: one sample at frame.
UpdateAux(p, frame) == [p EXCEPT !.xf = p.xf \cup {frame}]

Sample(h, frame, what) == [prim |-> h, frame |-> frame, what |-> what]

(***************************************************************************)
(* Python and numpy indexing.                                              *)
(***************************************************************************)
\* list[i]: a negative index counts from the end; out of range raises.
PyIndexOk(list, i) == -Len(list) <= i /\ i < Len(list)
PyIndex(list, i) == IF i >= 0 THEN list[i + 1] ELSE list[Len(list) + i + 1]

\* _load_textures: one path per texture id, in id order.
TexturePath(id) == <<"texture", id>>
LoadTextures(n) == [i \in 1..n |-> TexturePath(i - 1)]

(***************************************************************************)
(* _load_geom.                                                             *)
(***************************************************************************)
\* The texture_file expression: [err, tex], tex the set of bound paths.
TextureFile(matid, texid_table, tex_files) ==
  IF matid = NoMaterial THEN [err |-> "none", tex |-> {}]
  ELSE LET idx == mjNTEXMAT * matid IN
       IF idx \notin DOMAIN texid_table THEN [err |-> "IndexError", tex |-> {}]
       ELSE IF ~PyIndexOk(tex_files, texid_table[idx])
            THEN [err |-> "IndexError", tex |-> {}]
            ELSE [err |-> "none", tex |-> {PyIndex(tex_files, texid_table[idx])}]

\* c is the state of the call in progress; c.loaded logs the invocations.
LoadGeom(c, geom) ==
  LET d == [c EXCEPT !.loaded = Append(@, geom.name)] IN
  IF geom.name \in DOMAIN d.geom_name2usd
  THEN [d EXCEPT !.err = "AssertionError"]
  ELSE LET t == TextureFile(GeomMatid(geom.name), mat_texid, texture_files) IN
       IF t.err # "none" THEN [d EXCEPT !.err = t.err]
       ELSE IF HasBuilder(GeomType(geom.name))
            THEN LET h == Len(d.prims) + 1 IN
                 [d EXCEPT
                    !.prims = Append(d.prims,
                                NewPrim(GeomType(geom.name), geom.name, d.stage, t.tex)),
                    !.builds = [d.builds EXCEPT ![geom.name] = @ + 1],
                    !.geom_name2usd = (geom.name :> h) @@ d.geom_name2usd]
            ELSE [d EXCEPT !.geom_name2usd = (geom.name :> None) @@ d.geom_name2usd]

(***************************************************************************)
(* _update_geoms.                                                          *)
(***************************************************************************)
\* "if geom_name not in self.geom_name2usd"
NeedsLoadAlways(map, name) == TRUE
NeedsLoad(map, name) == name \notin DOMAIN map

\* The frame of the placeholder sample of a new primitive.
PlaceholderFrameAtUpdates(upd) == upd
PlaceholderFrame(upd) == 0

\* The frame argument of the per-call samples.
GeomFrameAtFrameCount(upd, fc) == fc
GeomFrameAhead(upd, fc) == fc + 1
GeomFrame(upd, fc) == upd
RetireFrameAtFrameCount(upd, fc) == fc
RetireFrame(upd, fc) == upd
LightFrame(upd, fc) == upd
CameraFrameAtFrameCount(upd, fc) == fc
CameraFrame(upd, fc) == upd

\* visible=geom.rgba[3] > 0
Visible(alpha) == alpha > 0

\* Author one sample on primitive h and log it.
Author(c, h, p, frame, what) ==
  [c EXCEPT !.prims = [@ EXCEPT ![h] = p],
            !.authored = @ \cup {Sample(h, frame, what)}]

\* The body of the loop over scene.geoms, for one geom.
UpdateOneGeom(c, geom) ==
  LET c1 == IF NeedsLoad(c.geom_name2usd, geom.name)
            THEN LET l == LoadGeom(c, geom) IN
                 IF l.err = "none" /\ l.geom_name2usd[geom.name] # None
                 THEN LET h == l.geom_name2usd[geom.name] IN
                      Author(l, h, SetVis(l.prims[h], FALSE, PlaceholderFrame(c.updates)),
                             PlaceholderFrame(c.updates), "placeholder")
                 ELSE l
            ELSE c
  IN IF c1.err # "none" THEN c1
     ELSE IF c1.geom_name2usd[geom.name] # None
          THEN LET h == c1.geom_name2usd[geom.name] IN
               Author(c1, h,
                      UpdatePrim(c1.prims[h], Visible(geom.alpha),
                                 GeomFrame(c.updates, c.frame_count)),
                      GeomFrame(c.updates, c.frame_count), "update")
          ELSE c1

RECURSIVE GeomLoop(_, _, _)
GeomLoop(c, scene, i) ==
  IF i > Len(scene) \/ c.err # "none" THEN c
  ELSE GeomLoop(UpdateOneGeom(c, scene[i]), scene, i + 1)

ActiveNames(scene) == {scene[i].name : i \in DOMAIN scene}

\* The names left in geom_names after the loop.
RetireSetOnce(snapshot, scene) ==
  (snapshot \ ActiveNames(scene)) \cap ActiveNames(last.scene)
RetireSet(snapshot, scene) == snapshot \ ActiveNames(scene)

\* "update_visibility(False, self.updates)" of one name left in geom_names.
RetireOneAndForget(c, name) ==
  LET h == c.geom_name2usd[name]
      c1 == IF h # None
            THEN Author(c, h, SetVis(c.prims[h], FALSE, RetireFrame(c.updates, c.frame_count)),
                        RetireFrame(c.updates, c.frame_count), "retire")
            ELSE c
  IN [c1 EXCEPT !.geom_name2usd = [n \in (DOMAIN @) \ {name} |-> @[n]]]
RetireOne(c, name) ==
  IF c.geom_name2usd[name] # None
  THEN LET h == c.geom_name2usd[name] IN
       Author(c, h, SetVis(c.prims[h], FALSE, RetireFrame(c.updates, c.frame_count)),
              RetireFrame(c.updates, c.frame_count), "retire")
  ELSE c

RECURSIVE RetireLoop(_, _)
RetireLoop(c, names) ==
  IF names = {} THEN c
  ELSE LET n == CHOOSE x \in names : TRUE IN
       RetireLoop(RetireOne(c, n), names \ {n})

UpdateGeoms(c, scene) ==
  LET snapshot == DOMAIN c.geom_name2usd
      c1 == GeomLoop([c EXCEPT !.ran = Append(@, "_update_geoms")], scene, 1)
  IN IF c1.err # "none" THEN c1 ELSE RetireLoop(c1, RetireSet(snapshot, scene))

(***************************************************************************)
(* The stage, lights and cameras.                                          *)
(***************************************************************************)
\* _initialize_usd_stage: a new, empty in-memory stage replaces self.stage.
\* c.ran logs the helpers a call executes, in order.
InitializeUsdStage(c) ==
  [c EXCEPT !.stage = @ + 1, !.endTimeCode = 0,
            !.ran = Append(@, "_initialize_usd_stage")]

\* _load_lights, one light (index i from 0).  For a positioned light the
\* statement "self.usd_lights.append" is an expression without a call, and
\* the next line builds the USDSphereLight and drops it.
LoadOneLight(c, i) ==
  IF lights[i + 1] # "origin"
  THEN [c EXCEPT !.prims = Append(@, NewPrim("SphereLight", ToString(i), c.stage, {}))]
  ELSE [c EXCEPT !.usd_lights = Append(@, None)]

RECURSIVE LoadLightsFrom(_, _)
LoadLightsFrom(c, i) ==
  IF i >= Len(lights) THEN c ELSE LoadLightsFrom(LoadOneLight(c, i), i + 1)

LoadLights(c) ==
  LoadLightsFrom([c EXCEPT !.usd_lights = <<>>, !.ran = Append(@, "_load_lights")], 0)

\* _update_lights, one light.
UpdateOneLight(c, i) ==
  IF lights[i + 1] = "origin" THEN c
  ELSE IF i >= Len(c.usd_lights) \/ c.usd_lights[i + 1] = None THEN c
  ELSE LET h == c.usd_lights[i + 1] IN
       Author(c, h, UpdateAux(c.prims[h], LightFrame(c.updates, c.frame_count)),
              LightFrame(c.updates, c.frame_count), "light")

RECURSIVE UpdateLightsFrom(_, _)
UpdateLightsFrom(c, i) ==
  IF i >= Len(lights) THEN c ELSE UpdateLightsFrom(UpdateOneLight(c, i), i + 1)

UpdateLights(c) == UpdateLightsFrom(c, 0)

\* _load_cameras
RECURSIVE LoadCamerasFrom(_, _)
LoadCamerasFrom(c, i) ==
  IF i > Len(camera_names.names) THEN c
  ELSE LoadCamerasFrom(
         [c EXCEPT !.prims = Append(@, NewPrim("Camera", camera_names.names[i], c.stage, {})),
                   !.usd_cameras = Append(@, Len(c.prims) + 1)],
         i + 1)

LoadCameras(c) ==
  LET d == [c EXCEPT !.usd_cameras = <<>>, !.ran = Append(@, "_load_cameras")] IN
  IF camera_names.none THEN d ELSE LoadCamerasFrom(d, 1)

\* _update_cameras
RECURSIVE UpdateCamerasFrom(_, _)
UpdateCamerasFrom(c, i) ==
  IF i > Len(c.usd_cameras) THEN c
  ELSE LET h == c.usd_cameras[i] IN
       UpdateCamerasFrom(
         Author(c, h, UpdateAux(c.prims[h], CameraFrame(c.updates, c.frame_count)),
                CameraFrame(c.updates, c.frame_count), "camera"),
         i + 1)

UpdateCameras(c) == UpdateCamerasFrom(c, 1)

(***************************************************************************)
(* update_scene.                                                           *)
(***************************************************************************)
\* The state update_scene works on, after "self.frame_count += 1".
CallState ==
  [frame_count |-> frame_count + 1, updates |-> updates, stage |-> stage,
   prims |-> prims, geom_name2usd |-> geom_name2usd, usd_lights |-> usd_lights,
   usd_cameras |-> usd_cameras, endTimeCode |-> endTimeCode, builds |-> builds,
   authored |-> {}, loaded |-> <<>>, ran |-> <<>>, err |-> "none"]

\* "if self.updates == 0:"
FirstUpdateAlways(upd, fc) == TRUE
FirstUpdate(upd, fc) == upd = 0

RunUpdateScene(scene) ==
  LET c0 == CallState
      c1 == IF FirstUpdate(c0.updates, c0.frame_count)
            THEN LoadCameras(LoadLights(InitializeUsdStage(c0)))
            ELSE c0
      c2 == UpdateGeoms(c1, scene)
  IN IF c2.err # "none" THEN c2
     ELSE [UpdateCameras(UpdateLights(c2)) EXCEPT !.updates = @ + 1]

\* What the scene of one call says about a name.
Status(scene, name) ==
  LET idx == {i \in DOMAIN scene : scene[i].name = name} IN
  IF idx = {} THEN "absent"
  ELSE IF \A i \in idx : scene[i].alpha > 0 THEN "visible"
  ELSE IF \A i \in idx : scene[i].alpha = 0 THEN "hidden"
  ELSE "mixed"

\* Sessions of a one-geom model are explored with exports and ad-hoc lights
\* and cameras, and the one without lights and cameras for more calls.
Extended(names) == Cardinality(names) = 1
CallLimit(names, lts, cams) ==
  IF Extended(names) /\ lts = <<>> /\ cams.none THEN LongCalls ELSE MaxCalls

UpdateScene(scene) ==
  /\ ncalls < CallLimit(model_geoms, lights, camera_names)
  /\ \E r \in {RunUpdateScene(scene)} :
     /\ frame_count' = r.frame_count
     /\ updates' = r.updates
     /\ stage' = r.stage
     /\ prims' = r.prims
     /\ geom_name2usd' = r.geom_name2usd
     /\ usd_lights' = r.usd_lights
     /\ usd_cameras' = r.usd_cameras
     /\ endTimeCode' = r.endTimeCode
     /\ builds' = r.builds
     /\ last' = [scene |-> scene, frame |-> updates, err |-> r.err,
                 authored |-> r.authored, loaded |-> r.loaded, ran |-> r.ran,
                 before |-> geom_name2usd, seen |-> reported,
                 prevStatus |-> [n \in GeomNames |-> Status(last.scene, n)]]
  /\ ncalls' = ncalls + 1
  /\ exportsInARow' = 0
  /\ reported' = reported \cup ActiveNames(scene)
  /\ boxLog' = Append(boxLog, Status(scene, "box"))
  /\ UNCHANGED <<ctorVars, model_geoms, ntex, mat_texid, lights, camera_names, texture_files, adhoc,
                 files, nexports>>

(***************************************************************************)
(* add_light, add_camera, save_scene.                                      *)
(***************************************************************************)
AddLight(light_type, objid) ==
  /\ Extended(model_geoms)
  /\ Cardinality(adhoc) < MaxAdds
  /\ adhoc' =
       IF light_type = "sphere"
       THEN adhoc \cup {UpdateAux(NewPrim("SphereLight", ToString(objid), stage, {}), 0)}
       ELSE IF light_type = "dome"
       THEN adhoc \cup {UpdateAux(NewPrim("DomeLight", ToString(objid), stage, {}), 0)}
       ELSE adhoc
  /\ exportsInARow' = 0
  /\ UNCHANGED <<ctorVars, model_geoms, ntex, mat_texid, lights, camera_names, texture_files,
                 frame_count, updates, geom_name2usd, stage, prims, usd_lights,
                 usd_cameras, endTimeCode, files, ncalls, nexports, builds,
                 reported, boxLog, last>>

AddCamera(objid) ==
  /\ Extended(model_geoms)
  /\ Cardinality(adhoc) < MaxAdds
  /\ adhoc' = adhoc \cup {UpdateAux(NewPrim("Camera", ToString(objid), stage, {}), 0)}
  /\ exportsInARow' = 0
  /\ UNCHANGED <<ctorVars, model_geoms, ntex, mat_texid, lights, camera_names, texture_files,
                 frame_count, updates, geom_name2usd, stage, prims, usd_lights,
                 usd_cameras, endTimeCode, files, ncalls, nexports, builds,
                 reported, boxLog, last>>

\* "self.stage.SetEndTimeCode(self.frame_count)"; n is the number of exports
\* made before.
ExportEndTimeCounting(fc, n) == fc + n
ExportEndTime(fc, n) == fc

\* The file save_scene writes: frames/frame_{frame_count}_.{filetype}
FrameFile(fc, filetype) == <<"frame", fc, filetype>>

SaveScene(filetype) ==
  /\ Extended(model_geoms)
  /\ nexports < MaxExports
  /\ nexports' = nexports + 1
  /\ exportsInARow' = exportsInARow + 1
  /\ endTimeCode' = ExportEndTime(frame_count, nexports)
  /\ files' = files \cup {FrameFile(frame_count, filetype)}
  /\ UNCHANGED <<ctorVars, model_geoms, ntex, mat_texid, lights, camera_names, texture_files,
                 frame_count, updates, geom_name2usd, stage, prims, adhoc,
                 usd_lights, usd_cameras, ncalls, builds, reported,
                 boxLog, last>>

(***************************************************************************)
(* The session after __init__, and the specification.                      *)
(***************************************************************************)
\* model.mat_texid of a model with one material whose first entry is t.
MatTexid(t) == [i \in 0..(mjNTEXMAT - 1) |-> IF i = 0 THEN t ELSE -1]

NoCameras == [none |-> TRUE, names |-> <<>>]

\* The sessions explored.  A model with a material (the ball) is explored
\* under every texture table, a model with an unsupported shape (the line)
\* and a model of one box under every light and camera configuration, a
\* model of one ball whose material has no texture without and with a
\* camera.
Sessions ==
  {[geoms |-> {"box", "ball"}, ntex |-> n, texid |-> t, lights |-> <<>>,
    cameras |-> NoCameras] : n \in 0..MaxTex, t \in -1..MaxTex}
  \cup
  {[geoms |-> {"box", "line"}, ntex |-> 0, texid |-> -1, lights |-> <<>>,
    cameras |-> NoCameras]}
  \cup
  {[geoms |-> {"box"}, ntex |-> 0, texid |-> -1, lights |-> l, cameras |-> k] :
     l \in LightConfigs, k \in CameraConfigs}
  \cup
  {[geoms |-> {"ball"}, ntex |-> 0, texid |-> -1, lights |-> <<>>, cameras |-> k] :
     k \in CameraConfigs}

\* The arguments of __init__: the model, the camera names and the image size.
Arguments(s, w, h, bw, bh) ==
  /\ model_geoms = s.geoms
  /\ ntex = s.ntex
  /\ mat_texid = MatTexid(s.texid)
  /\ lights = s.lights
  /\ camera_names = s.cameras
  /\ width = w
  /\ height = h
  /\ offwidth = bw
  /\ offheight = bh

\* No call has been made yet.
NoHistory ==
  /\ ncalls = 0
  /\ nexports = 0
  /\ exportsInARow = 0
  /\ builds = [n \in GeomNames |-> 0]
  /\ reported = {}
  /\ boxLog = <<>>
  /\ last = [scene |-> <<>>, frame |-> 0, err |-> "none", authored |-> {},
             loaded |-> <<>>, ran |-> <<>>,
             before |-> <<>>, seen |-> {},
             prevStatus |-> [n \in GeomNames |-> "absent"]]

\* Before __init__ runs no attribute of the session exists: no renderer,
\* no stage (stage number 0), no directory, no texture file.
NoSession ==
  /\ raised = "none"
  /\ renderer = FALSE
  /\ directories = FALSE
  /\ texture_files = <<>>
  /\ stage = 0
  /\ frame_count = 0
  /\ updates = 0
  /\ geom_name2usd = <<>>
  /\ prims = <<>>
  /\ adhoc = {}
  /\ usd_lights = <<>>
  /\ usd_cameras = <<>>
  /\ endTimeCode = 0
  /\ files = {}
  /\ NoHistory

\* "if width > buffer_width", "if height > buffer_height"
WidthReaches(w, bw) == w >= bw
WidthExceeds(w, bw) == w > bw
HeightExceeds(h, bh) == h > bh

\* The attributes the assignments of __init__ leave: the counters at 0, an
\* empty identity map, the renderer, the first stage, the directories and
\* one texture file per texture of the model.
NewSession(n) ==
  [frame_count |-> 0, updates |-> 0, geom_name2usd |-> <<>>, renderer |-> TRUE,
   stage |-> 1, endTimeCode |-> 0, prims |-> <<>>, adhoc |-> {},
   usd_lights |-> <<>>, usd_cameras |-> <<>>, directories |-> TRUE,
   files |-> {}, texture_files |-> LoadTextures(n)]

SessionCreated ==
  /\ raised = "none"
  /\ \E r \in {NewSession(ntex)} :
       /\ frame_count = r.frame_count
       /\ updates = r.updates
       /\ geom_name2usd = r.geom_name2usd
       /\ renderer = r.renderer
       /\ stage = r.stage
       /\ endTimeCode = r.endTimeCode
       /\ prims = r.prims
       /\ adhoc = r.adhoc
       /\ usd_lights = r.usd_lights
       /\ usd_cameras = r.usd_cameras
       /\ directories = r.directories
       /\ files = r.files
       /\ texture_files = r.texture_files
  /\ NoHistory

\* __init__: the two guards, then the assignments.
USDExporterInit ==
  /\ raised = "none" /\ ~renderer
  /\ IF WidthExceeds(width, offwidth) \/ HeightExceeds(height, offheight)
     THEN /\ raised' = "ValueError"
          /\ UNCHANGED <<renderer, directories, texture_files, frame_count, updates,
                         geom_name2usd, stage, prims, adhoc, usd_lights,
                         usd_cameras, endTimeCode, files>>
     ELSE \E r \in {NewSession(ntex)} :
          /\ raised' = "none"
          /\ frame_count' = r.frame_count
          /\ updates' = r.updates
          /\ geom_name2usd' = r.geom_name2usd
          /\ renderer' = r.renderer
          /\ stage' = r.stage
          /\ endTimeCode' = r.endTimeCode
          /\ prims' = r.prims
          /\ adhoc' = r.adhoc
          /\ usd_lights' = r.usd_lights
          /\ usd_cameras' = r.usd_cameras
          /\ directories' = r.directories
          /\ files' = r.files
          /\ texture_files' = r.texture_files
  /\ UNCHANGED <<width, height, offwidth, offheight, model_geoms, ntex, mat_texid,
                 lights, camera_names, ncalls, nexports, exportsInARow, builds,
                 reported, boxLog, last>>

\* A session whose construction succeeded.
InitSession(s) == Arguments(s, 1, 1, 1, 1) /\ SessionCreated

Init == \E s \in Sessions : InitSession(s)

Next ==
  \/ \E scene \in Scenes(model_geoms) : UpdateScene(scene)
  \/ \E t \in {"sphere", "dome"} : AddLight(t, 1)
  \/ AddCamera(1)
  \/ SaveScene("usd")

Spec == Init /\ [][Next]_vars

\* The constructions explored: every image size against every buffer size,
\* for a model without and with a texture.
Constructions ==
  {[geoms |-> {"box", "ball"}, ntex |-> n, texid |-> n - 1, lights |-> <<>>,
    cameras |-> NoCameras] : n \in 0..MaxTex}

InitConstruction ==
  \E s \in Constructions, w, h, bw, bh \in 1..MaxDim :
    Arguments(s, w, h, bw, bh) /\ NoSession

NextConstruction == USDExporterInit

SpecConstruction == InitConstruction /\ [][NextConstruction]_vars

(***************************************************************************)
(* Vocabulary of the properties.                                           *)
(***************************************************************************)
HasHandle(name) ==
  name \in DOMAIN geom_name2usd /\ geom_name2usd[name] # None

GeomPrim(name) == prims[geom_name2usd[name]]

\* The samples the last call authored on the primitive of a name.
AuthoredOn(name) == {s \in last.authored : s.prim = geom_name2usd[name]}

Completed == ncalls > 0 /\ last.err = "none"

Whats == {s.what : s \in last.authored}

\* What self.stage holds and save_scene serializes: the primitives defined
\* on the stage object in use, with their samples, and its end time code.
Document ==
  [prims |-> {prims[h] : h \in {i \in DOMAIN prims : prims[i].stage = stage}}
               \cup {p \in adhoc : p.stage = stage},
   endTimeCode |-> endTimeCode]

(***************************************************************************)
(* C1.                                                                     *)
(***************************************************************************)
\* C1, as claimed: every sample the last synchronization call authored is
\* at the value frame_count has after the call's increment.
C1_SamplesAtFrameCount ==
  \A s \in last.authored : s.frame = frame_count

\* C1, amended: every geom, retire, light and camera sample of one call is
\* at the value updates had on entry to the call, which lies below
\* frame_count; all of them share that value; the one other sample is the
\* placeholder of a primitive created in the call, at frame 0.  The
\* samples are in the document at those frames.
C1_SamplesAtUpdates ==
  /\ ncalls > 0 =>
       /\ last.frame = IF last.err = "none" THEN updates - 1 ELSE updates
       /\ last.frame < frame_count
  /\ \A s \in last.authored :
       /\ s.frame = IF s.what = "placeholder" THEN 0 ELSE last.frame
       /\ s.what \in {"placeholder", "update", "retire"} =>
            s.frame \in DOMAIN prims[s.prim].vis
       /\ s.what \in {"update", "light", "camera"} => s.frame \in prims[s.prim].xf

\* A second or later call that completed and authored a geom update and a
\* camera sample.
C1_Witness ==
  /\ Completed /\ ncalls >= 2
  /\ {"update", "camera"} \subseteq Whats

(***************************************************************************)
(* C2.                                                                     *)
(***************************************************************************)
\* The scenario: no textures, a model of one box, reported visible in calls
\* 1, 2 and 3 and absent in call 4.
C2_Scenario ==
  /\ ntex = 0
  /\ model_geoms = {"box"}
  /\ boxLog = <<"visible", "visible", "visible", "absent">>

\* C2, as claimed: one box primitive, with visibility samples
\* {0: false, 1: true, 2: true, 3: true, 4: false}.
C2_ScenarioSamplesFrom1 ==
  C2_Scenario =>
    /\ builds["box"] = 1
    /\ HasHandle("box")
    /\ GeomPrim("box").vis =
         (0 :> FALSE) @@ (1 :> TRUE) @@ (2 :> TRUE) @@ (3 :> TRUE) @@ (4 :> FALSE)

\* C2, amended: one box primitive is built, on the stage the session ends
\* with, and after call 4 its visibility samples are
\* {0: true, 1: true, 2: true, 3: false}: the calls author at frames 0..3,
\* and the first call's update overwrites the placeholder.
C2_ScenarioSamplesFrom0 ==
  C2_Scenario =>
    /\ builds["box"] = 1
    /\ Cardinality({h \in DOMAIN prims : prims[h].name = "box"}) = 1
    /\ HasHandle("box")
    /\ GeomPrim("box").stage = stage
    /\ GeomPrim("box").vis =
         (0 :> TRUE) @@ (1 :> TRUE) @@ (2 :> TRUE) @@ (3 :> FALSE)
    /\ GeomPrim("box").xf = {0, 1, 2}

\* The scenario has run: four calls, the last one completed without the box.
C2_Witness == C2_Scenario /\ Completed /\ ncalls = 4 /\ HasHandle("box")

(***************************************************************************)
(* C3.                                                                     *)
(***************************************************************************)
\* A name the identity map held before the last call, with a primitive,
\* that the last call's scene did not report.
Retired(name) ==
  /\ ncalls > 0
  /\ name \in DOMAIN last.before
  /\ HasHandle(name)
  /\ Status(last.scene, name) = "absent"

\* C3, as claimed, of the calls that run to completion: a retired entity
\* gets its visibility-false sample in the call that first finds it
\* missing, and a later call in which it is still absent authors nothing on
\* its primitive.
C3_RetiredOnce ==
  \A name \in GeomNames :
    Retired(name) /\ Completed =>
      IF last.prevStatus[name] = "absent"
      THEN AuthoredOn(name) = {}
      ELSE AuthoredOn(name) = {Sample(geom_name2usd[name], last.frame, "retire")}

\* C3, amended: every call that runs to completion while the entity is
\* absent, the first and each later one, authors exactly one sample on its
\* primitive, visibility false at the value updates had on entry; a call
\* that raises in the geom loop authors none.
C3_RetiredEveryCall ==
  \A name \in GeomNames :
    Retired(name) =>
      IF last.err = "none"
      THEN /\ AuthoredOn(name) = {Sample(geom_name2usd[name], last.frame, "retire")}
           /\ last.frame \in DOMAIN GeomPrim(name).vis
           /\ ~GeomPrim(name).vis[last.frame]
      ELSE AuthoredOn(name) = {}

\* An entity absent in two calls in a row, the second of which completed
\* and authored a retire sample on it again.
C3_Witness ==
  \E name \in GeomNames :
    /\ Retired(name) /\ Completed
    /\ last.prevStatus[name] = "absent"
    /\ ncalls >= 3
    /\ Sample(geom_name2usd[name], last.frame, "retire") \in last.authored

(***************************************************************************)
(* C4.                                                                     *)
(***************************************************************************)
\* A name the last call created a primitive for, every report of which in
\* that call had alpha > 0.
CreatedVisible(name) ==
  /\ ncalls > 0
  /\ name \notin DOMAIN last.before
  /\ HasHandle(name)
  /\ Status(last.scene, name) = "visible"

\* C4, as claimed: an entity first reported in call K > 1, visible there,
\* has visibility false at frame 0 and its first visibility true at frame K.
C4_FirstTrueAtCall ==
  \A name \in GeomNames :
    /\ ncalls > 1
    /\ name \in ActiveNames(last.scene) \ last.seen
    /\ Status(last.scene, name) = "visible"
    /\ HasBuilder(GeomType(name))
    /\ Completed
    => /\ HasHandle(name)
       /\ 0 \in DOMAIN GeomPrim(name).vis /\ ~GeomPrim(name).vis[0]
       /\ ncalls \in DOMAIN GeomPrim(name).vis /\ GeomPrim(name).vis[ncalls]
       /\ \A f \in DOMAIN GeomPrim(name).vis : GeomPrim(name).vis[f] => f >= ncalls

\* C4, amended: an entity created in a call whose sample coordinate u (the
\* value of updates on entry) is at least 1, visible in that call, has after
\* the call exactly the samples false at frame 0 and true at frame u, and u
\* is below the number K of the call; with u = 0 the update overwrites the
\* placeholder and the one sample is true at frame 0.
C4_FirstTrueAtUpdates ==
  \A name \in GeomNames :
    CreatedVisible(name) =>
      /\ last.frame < ncalls
      /\ GeomPrim(name).vis =
           IF last.frame >= 1 THEN (0 :> FALSE) @@ (last.frame :> TRUE)
           ELSE (0 :> TRUE)
      /\ GeomPrim(name).xf = {last.frame}

\* An entity created, visible, by the second or a later call, at a sample
\* coordinate of at least 1.
C4_Witness ==
  \E name \in GeomNames :
    CreatedVisible(name) /\ ncalls > 1 /\ last.frame >= 1 /\ name \notin last.seen

(***************************************************************************)
(* C5.                                                                     *)
(***************************************************************************)
\* A step that is an update_scene call not reporting name, after a call
\* that reported it visible, name having a primitive.
HideStep(name) ==
  /\ ncalls' = ncalls + 1
  /\ ncalls > 0
  /\ HasHandle(name)
  /\ Status(last.scene, name) = "visible"
  /\ Status(last'.scene, name) = "absent"

\* The samples of p at frames other than frame are those of q.
KeptBut(p, q, frame) ==
  /\ (DOMAIN q.vis) \ {frame} = (DOMAIN p.vis) \ {frame}
  /\ \A f \in (DOMAIN p.vis) \ {frame} : q.vis[f] = p.vis[f]
  /\ q.xf = p.xf
  /\ q.name = p.name /\ q.kind = p.kind /\ q.stage = p.stage /\ q.tex = p.tex

\* C5, as claimed, of the calls that run to completion: visible in call K
\* and absent in call K+1, the entity has visibility false at frame K+1
\* after call K+1, and keeps its primitive, its entry and its other samples.
C5_HiddenAtNextFrameCount ==
  [][\A name \in GeomNames :
       HideStep(name) /\ last'.err = "none" =>
         /\ name \in DOMAIN geom_name2usd'
         /\ geom_name2usd'[name] = geom_name2usd[name]
         /\ frame_count' \in DOMAIN prims'[geom_name2usd[name]].vis
         /\ ~prims'[geom_name2usd[name]].vis[frame_count']
         /\ KeptBut(prims[geom_name2usd[name]], prims'[geom_name2usd[name]],
                    frame_count')]_vars

\* C5, amended: after call K+1 the entity has visibility false at that
\* call's sample coordinate (the value of updates on entry, K when no call
\* raised) if the call runs to completion, and is untouched if the call
\* raises; its identity-map entry, its primitive and its samples at all
\* other frames are kept.
C5_HiddenAtUpdates ==
  [][\A name \in GeomNames :
       HideStep(name) =>
         /\ name \in DOMAIN geom_name2usd'
         /\ geom_name2usd'[name] = geom_name2usd[name]
         /\ IF last'.err = "none"
            THEN /\ updates \in DOMAIN prims'[geom_name2usd[name]].vis
                 /\ ~prims'[geom_name2usd[name]].vis[updates]
                 /\ updates < frame_count'
                 /\ KeptBut(prims[geom_name2usd[name]],
                            prims'[geom_name2usd[name]], updates)
            ELSE prims'[geom_name2usd[name]] = prims[geom_name2usd[name]]]_vars

\* After such a step: the entity was visible in the call before the last,
\* is absent in the last, which completed and authored the retire sample.
C5_Witness ==
  \E name \in GeomNames :
    /\ Retired(name) /\ Completed
    /\ last.prevStatus[name] = "visible"
    /\ ~GeomPrim(name).vis[last.frame]
    /\ \E f \in DOMAIN GeomPrim(name).vis : GeomPrim(name).vis[f]

(***************************************************************************)
(* C6.                                                                     *)
(***************************************************************************)
\* C6, as claimed: after K update_scene calls frame_count is K, and between
\* calls it equals the updates counter.
C6_FrameCountIsCallsAndUpdates ==
  /\ frame_count = ncalls
  /\ updates = frame_count

(***************************************************************************)
(* C7.                                                                     *)
(***************************************************************************)
GeomKinds == {GeomType(n) : n \in GeomNames}

\* C7: a call keeps every entry the identity map held before it; a builder
\* runs at most once per name and a name has at most one primitive; a call
\* authors a placeholder only on a primitive it created, and its other geom
\* samples on the handle the map holds for a reported or retired name.
C7_IdentityStable ==
  /\ \A name \in DOMAIN last.before :
       name \in DOMAIN geom_name2usd /\ geom_name2usd[name] = last.before[name]
  /\ \A name \in GeomNames :
       /\ builds[name] <= 1
       /\ Cardinality({h \in DOMAIN prims :
                         prims[h].kind \in GeomKinds /\ prims[h].name = name})
            = builds[name]
       /\ HasHandle(name) =>
            builds[name] = 1 /\ GeomPrim(name).name = name
  /\ \A s \in last.authored :
       /\ s.what = "placeholder" =>
            \E name \in (DOMAIN geom_name2usd) \ (DOMAIN last.before) :
              geom_name2usd[name] = s.prim
       /\ s.what = "update" =>
            \E name \in ActiveNames(last.scene) : HasHandle(name) /\ geom_name2usd[name] = s.prim
       /\ s.what = "retire" =>
            \E name \in DOMAIN last.before : HasHandle(name) /\ geom_name2usd[name] = s.prim

\* An entity with a primitive that was absent in the call before the last
\* and is updated again by the last call, on the handle it had.
C7_Witness ==
  \E name \in GeomNames :
    /\ Completed /\ ncalls >= 3
    /\ name \in DOMAIN last.before /\ HasHandle(name)
    /\ last.prevStatus[name] = "absent"
    /\ Sample(geom_name2usd[name], last.frame, "update") \in last.authored
    /\ builds[name] = 1

(***************************************************************************)
(* C8.                                                                     *)
(***************************************************************************)
\* The names a scene reports more than once.
Duplicates(scene) ==
  {scene[i].name : i \in {j \in DOMAIN scene :
                            \E k \in DOMAIN scene : k # j /\ scene[k].name = scene[j].name}}

\* The last report of a name in a scene.
LastReport(scene, name) ==
  scene[CHOOSE i \in DOMAIN scene :
          /\ scene[i].name = name
          /\ \A j \in DOMAIN scene : scene[j].name = name => j <= i]

\* C8, as claimed: a call whose scene reports a name twice does not
\* complete; it fails, with the assertion of _load_geom unless a texture
\* lookup raised first.
C8_DuplicateRaises ==
  ncalls > 0 /\ Duplicates(last.scene) # {} =>
    last.err = "AssertionError" \/ last.err = "IndexError"

\* C8, amended: no call fails with the assertion of _load_geom, since
\* _update_geoms loads only names the map does not hold; a call whose scene
\* reports a name twice fails only if a texture lookup raises, and
\* otherwise completes with the second report authored over the first on
\* the one handle of the name.
C8_DuplicateReusesHandle ==
  /\ last.err # "AssertionError"
  /\ \A name \in Duplicates(last.scene) :
       /\ last.err # "none" =>
            /\ last.err = "IndexError"
            /\ \E n \in ActiveNames(last.scene) : GeomMatid(n) # NoMaterial
       /\ last.err = "none" =>
            /\ builds[name] = IF HasBuilder(GeomType(name)) THEN 1 ELSE 0
            /\ HasHandle(name) =>
                 /\ GeomPrim(name).vis[last.frame] = Visible(LastReport(last.scene, name).alpha)
                 /\ Cardinality({s \in AuthoredOn(name) : s.what = "update"}) = 1

\* A completed call whose scene reported a name with a primitive twice.
C8_Witness ==
  \E name \in GeomNames :
    Completed /\ name \in Duplicates(last.scene) /\ HasHandle(name)

(***************************************************************************)
(* C9.                                                                     *)
(***************************************************************************)
\* C9, as claimed: after the first completed call usd_lights has one slot
\* per light, None exactly for the lights at the origin, and a completed
\* call authors a sample at its frame on every other slot.
C9_LightRegistry ==
  updates >= 1 =>
    /\ Len(usd_lights) = Len(lights)
    /\ \A i \in DOMAIN usd_lights : (usd_lights[i] = None) <=> (lights[i] = "origin")
    /\ \A i \in DOMAIN usd_lights :
         usd_lights[i] # None /\ Completed =>
           \E s \in last.authored : s.prim = usd_lights[i] /\ s.what = "light"

(***************************************************************************)
(* C10.                                                                    *)
(***************************************************************************)
\* The material of a name refers to no texture of the model.
TextureMiss(name) ==
  /\ GeomMatid(name) # NoMaterial
  /\ mat_texid[mjNTEXMAT * GeomMatid(name)] \notin 0..(ntex - 1)

\* C10, as claimed: a call that reports an entity whose material misses its
\* texture does not raise, and the primitive has no texture binding.
C10_MissIsNoTexture ==
  \A name \in ActiveNames(last.scene) :
    ncalls > 0 /\ TextureMiss(name) =>
      /\ last.err = "none"
      /\ HasHandle(name)
      /\ GeomPrim(name).tex = {}

(***************************************************************************)
(* C11.                                                                    *)
(***************************************************************************)
\* __init__ has run: it raised, or it created the renderer.
Attempted == raised # "none" \/ renderer

\* C11: a construction raises ValueError exactly when width exceeds the
\* offscreen buffer width or height exceeds the offscreen buffer height;
\* when it raised, no renderer, no stage, no output directory and no
\* texture file exists; when it did not, all of them exist.
C11_DimensionGuard ==
  /\ raised \in {"none", "ValueError"}
  /\ Attempted =>
       (raised = "ValueError" <=> (width > offwidth \/ height > offheight))
  /\ raised = "ValueError" =>
       /\ ~renderer
       /\ stage = 0
       /\ ~directories
       /\ texture_files = <<>>
       /\ files = {}
  /\ renderer =>
       /\ raised = "none"
       /\ stage = 1
       /\ directories
       /\ Len(texture_files) = ntex

\* A construction of a model with a texture raised for its width alone.
C11_Witness ==
  /\ raised = "ValueError"
  /\ width > offwidth /\ height <= offheight
  /\ ntex = MaxTex

(***************************************************************************)
(* C12.                                                                    *)
(***************************************************************************)
\* The invocations of _load_geom for a name in the last call.
TimesLoaded(name) ==
  Cardinality({i \in DOMAIN last.loaded : last.loaded[i] = name})

C13_OneFilePerExport == Cardinality(files) = nexports

(***************************************************************************)
(* C14.                                                                    *)
(***************************************************************************)
\* C14, as claimed: a save_scene call sets the end time code to the number
\* of completed update_scene calls (the updates counter) and leaves the
\* frame counter, the updates counter, the identity map, the light and
\* camera registries and every primitive with its samples unchanged.
C14_ExportSetsCompletedCalls ==
  [][nexports' = nexports + 1 =>
       /\ endTimeCode' = updates
       /\ UNCHANGED <<frame_count, updates, geom_name2usd, usd_lights,
                      usd_cameras, prims, adhoc>>]_vars

(***************************************************************************)
(* C15.                                                                    *)
(***************************************************************************)
\* C15: a save_scene call made directly after a save_scene call, with no
\* update_scene, add_light or add_camera call in between, serializes the
\* document the first one serialized and writes it to the same set of
\* files.
C15_ReexportSame ==
  [][(exportsInARow >= 1 /\ nexports' = nexports + 1) =>
       /\ Document' = Document
       /\ files' = files]_vars

\* Two exports in a row of a document that holds a box with samples of
\* two calls and an ad-hoc primitive.
C15_Witness ==
  /\ exportsInARow = 2
  /\ updates >= 2
  /\ HasHandle("box")
  /\ \E p \in adhoc : p.stage = stage

(***************************************************************************)
(* C16.                                                                    *)
(***************************************************************************)
\* The last update_scene call executed the helper f.
Ran(f) == \E i \in DOMAIN last.ran : last.ran[i] = f

\* C16, as claimed: the first update_scene call of a session runs
\* _initialize_usd_stage, _load_lights and _load_cameras, in this order and
\* before _update_geoms, and no later call runs any of them: after any
\* number of calls update_scene has replaced the stage of __init__ once.
C16_DiscoveryOnlyInFirstCall ==
  /\ ncalls = 1 =>
       /\ Len(last.ran) = 4
       /\ last.ran = <<"_initialize_usd_stage", "_load_lights", "_load_cameras",
                       "_update_geoms">>
  /\ ncalls >= 2 =>
       /\ ~Ran("_initialize_usd_stage")
       /\ ~Ran("_load_lights")
       /\ ~Ran("_load_cameras")
  /\ ncalls >= 1 => stage = 2

(***************************************************************************)
(* C17.                                                                    *)
(***************************************************************************)
\* The pose samples the last call authored on the camera of registry slot i.
CameraSamples(i) ==
  {s \in last.authored : s.what = "camera" /\ s.prim = usd_cameras[i]}

C18_AdhocStaysInDocument ==
  exportsInARow >= 1 =>
    \A p \in adhoc : p \in Document.prims /\ 0 \in p.xf

(***************************************************************************)
(* C19.                                                                    *)
(***************************************************************************)
\* C19, as claimed: between calls, every handle of the identity map that
\* is not None is a primitive of the stage object in use.
C19_HandlesOnCurrentStage ==
  \A name \in GeomNames : HasHandle(name) => GeomPrim(name).stage = stage

(***************************************************************************)
(* C20.                                                                    *)
(***************************************************************************)
\* The frames at which a primitive has a visibility or a pose sample.
SampleTimes(p) == (DOMAIN p.vis) \cup p.xf

\* C20: in the document a save_scene call has just serialized, every
\* sample of every primitive lies between the start time code 0 and the
\* end time code the call has set.
C20_SamplesWithinTimeRange ==
  exportsInARow >= 1 =>
    \A p \in Document.prims :
      \A t \in SampleTimes(p) : 0 <= t /\ t <= Document.endTimeCode

\* An export of a document whose box has samples of three calls, the last
\* a retire sample, next to an ad-hoc primitive.
C20_Witness ==
  /\ exportsInARow >= 1
  /\ HasHandle("box") /\ GeomPrim("box") \in Document.prims
  /\ {0, 1, 2} \subseteq SampleTimes(GeomPrim("box"))
  /\ Status(last.scene, "box") = "absent"
  /\ \E p \in adhoc : p \in Document.prims

=============================================================================
